---- MODULE Spec2Model ----
(***************************************************************************)
(* The bill service of lawwm/pb-assignment: a bill accrues line items      *)
(* through concurrent HTTP requests until it is closed.                    *)
(*                                                                         *)
(* The sources hold two builds of the service, and the model holds both,   *)
(* selected by the variable `variant`:                                     *)
(*                                                                         *)
(*   "store"     api (src/unnamed/part_001) + store functions              *)
(*               (src/unnamed/part_000:87-252) + BillWorkflow              *)
(*               (src/bill/workflow.go): the handlers write the ledger     *)
(*               themselves and the workflow only keeps the running total. *)
(*   "lifecycle" api (src/unnamed/part_000:254-446) + the activities       *)
(*               (src/bill/activities.go) + BillLifecycleWorkflow, whose   *)
(*               source is absent: its loop is modelled from spec.md 4.1   *)
(*               and the description in src/unnamed/part_004:9-15.         *)
(*                                                                         *)
(* Every database statement and every Temporal client call is one atomic   *)
(* step; a handler is the sequence of its steps, so that the steps of      *)
(* concurrent requests interleave as they do on the server.                *)
(*                                                                         *)
(* Abstractions: descriptions and created_at are left out (a table is the  *)
(* sequence of its rows in insertion order, which is the created_at        *)
(* order); now() is a clock that advances with every reading; uuid.New()   *)
(* in a request returns the index of that request, which no other request  *)
(* has; one bill is created; infrastructure failures (database or Temporal *)
(* unreachable) do not happen.                                             *)
(***************************************************************************)
EXTENDS Integers, Sequences, FiniteSets, TLC

\* Bounds of the model.
MaxCalls == 3
MaxAttempts == 2

Calls == 1..MaxCalls

CurrencyUSD == "USD"
CurrencyGEL == "GEL"
\* What a request may carry: the supported currencies and an unsupported one;
\* an amount the code rejects (<= 0) and one it accepts.  The bill is opened in
\* USD or with the unsupported currency (USD and GEL are interchangeable in the
\* code).
Currencies == {CurrencyUSD, CurrencyGEL, "EUR"}
BillCurrencies == {CurrencyUSD, "EUR"}
Amounts == {-1, 1}

StatusOpen == "OPEN"
StatusClosed == "CLOSED"

TheBillID == "b1"

VARIABLES
    variant,          \* which build runs: "store" or "lifecycle"
    bills,            \* table bills: sequence of rows
    bill_line_items,  \* table bill_line_items: sequence of rows
    clock,            \* the last reading of now()
    wf,               \* the bill's workflow execution
    mailbox,          \* signals recorded for the workflow and not yet received
    closeSignalled,   \* history: a close-bill signal has been recorded
    closes,           \* history: how many invocations of the close step succeeded
    closeAccepted,    \* history: the workflow has received a close-bill signal
    createdRow,       \* history: the pending results of CreateBillRowActivity
    applied,          \* history: the signals the workflow has applied, in order
    directSent,       \* history: the signals sent by clients other than the api
    creator,          \* the POST /bills request
    calls             \* the POST /bills/:id/line-items and /close requests

db == <<bills, bill_line_items, clock>>
history == <<closeSignalled, closes, closeAccepted, createdRow, applied,
             directSent>>
vars == <<variant, db, wf, mailbox, history, creator, calls>>

----------------------------------------------------------------------------
(* Values *)

Valid(c) == c = CurrencyUSD \/ c = CurrencyGEL

NoBill == [id |-> "", status |-> "", currency |-> "", total_minor |-> 0,
           closed_at |-> 0]

\* What is known of the invocations of CreateBillRowActivity whose result
\* nobody has taken yet: how many there were, and the input and the result
\* (error, row read back) of the last one.
NoCreateBillRow == [n |-> 0, Currency |-> "", out |-> "", row |-> NoBill]

NoLineItem == [kind |-> "", LineItemID |-> 0, AmountMinor |-> 0, Currency |-> ""]

RECURSIVE SelectRows(_, _)
SelectRows(rows, billID) ==
    IF rows = <<>> THEN <<>>
    ELSE IF rows[1].bill_id = billID
         THEN <<rows[1]>> \o SelectRows(Tail(rows), billID)
         ELSE SelectRows(Tail(rows), billID)

----------------------------------------------------------------------------
(* The store functions of the "store" build *)

\* SELECT ... FROM bills WHERE id = $1; NoBill stands for sqldb.ErrNoRows.
getBill(id) ==
    IF \E i \in DOMAIN bills : bills[i].id = id
    THEN bills[CHOOSE i \in DOMAIN bills : bills[i].id = id]
    ELSE NoBill

\* INSERT INTO bills (id, status, currency, total_minor) VALUES ($1, 'OPEN', $3, 0)
createBill(id, currency) ==
    Append(bills, [id |-> id, status |-> StatusOpen, currency |-> currency,
                   total_minor |-> 0, closed_at |-> 0])

\* The error closeBill returns for the bill snapshot it is handed.
closeBillError(bill) ==
    IF bill.status # StatusOpen THEN "FailedPrecondition" ELSE "OK"

\* closeBillUpdate that leaves total_minor as it was.
closeBillUpdateStatusOnly(bill, totalMinor, now) ==
    [i \in DOMAIN bills |->
        IF bills[i].id = bill.id
        THEN [bills[i] EXCEPT !.status = StatusClosed, !.closed_at = now]
        ELSE bills[i]]

\* UPDATE bills SET status = 'CLOSED', total_minor = $3, closed_at = $4 WHERE id = $1
closeBillUpdate(bill, totalMinor, now) ==
    [i \in DOMAIN bills |->
        IF bills[i].id = bill.id
        THEN [bills[i] EXCEPT !.status = StatusClosed,
                              !.total_minor = totalMinor,
                              !.closed_at = now]
        ELSE bills[i]]

\* The error insertLineItem returns for the bill snapshot it is handed.
insertLineItemError(bill, amountMinor) ==
    IF bill.status # StatusOpen THEN "FailedPrecondition"
    ELSE IF amountMinor <= 0 THEN "InvalidArgument"
    ELSE "OK"

\* INSERT INTO bill_line_items (id, bill_id, description, amount_minor) VALUES (...)
insertLineItemRow(id, bill, amountMinor) ==
    Append(bill_line_items,
           [id |-> id, bill_id |-> bill.id, amount_minor |-> amountMinor])

\* SELECT ... FROM bill_line_items WHERE bill_id = $1 ORDER BY created_at ASC
listLineItems(billID) == SelectRows(bill_line_items, billID)

\* AddLineItemStoreCheck without the currency comparison.
AddLineItemStoreCheckAnyCurrency(b, currency) ==
    IF b = NoBill THEN "NotFound"
    ELSE IF b.status # StatusOpen THEN "FailedPrecondition"
    ELSE "OK"

\* The checks of POST /bills/:id/line-items on the row getBill returned.
AddLineItemStoreCheck(b, currency) ==
    IF b = NoBill THEN "NotFound"
    ELSE IF b.status # StatusOpen THEN "FailedPrecondition"
    ELSE IF currency # b.currency THEN "FailedPrecondition"
    ELSE "OK"

\* The checks of POST /bills/:id/close on the row getBill returned.
CloseBillStoreCheck(b) ==
    IF b = NoBill THEN "NotFound"
    ELSE IF b.status # StatusOpen THEN "FailedPrecondition"
    ELSE "OK"

----------------------------------------------------------------------------
(* Temporal: the workflow execution and its signals *)

\* BillWorkflow's state := &BillResult{...} and the execution's position.
\* sig, step, out and attempts describe the activity the lifecycle workflow
\* waits for: its input, how far its current invocation got, what the last
\* invocation returned, and how many invocations were started.
NoWorkflow == [status |-> "none", pc |-> "", Currency |-> "", TotalMinor |-> 0,
               Items |-> <<>>, sig |-> NoLineItem, step |-> "", out |-> "",
               attempts |-> 0]

StartedWorkflow(currency, pc) ==
    [NoWorkflow EXCEPT !.status = "running", !.pc = pc, !.Currency = currency]

\* workflow.ExecuteActivity(...): the activity is scheduled with its input.
Scheduled(w, pc, sig) ==
    [w EXCEPT !.pc = pc, !.sig = sig, !.step = "scheduled", !.out = "",
              !.attempts = 0]

\* The workflow goes back to its Select.
Resumed(w) ==
    [w EXCEPT !.pc = "select", !.sig = NoLineItem, !.step = "", !.out = "",
              !.attempts = 0]

AddLineItemSignal(lineItemID, amountMinor, currency) ==
    [kind |-> "add", LineItemID |-> lineItemID, AmountMinor |-> amountMinor,
     Currency |-> currency]

CloseBillSignal == [kind |-> "close", LineItemID |-> 0, AmountMinor |-> 0,
                    Currency |-> ""]

\* client.SignalWorkflow: an error unless the execution is running; else the
\* signal is recorded after those recorded before it.
SignalWorkflowOK == wf.status = "running"

\* The position of the add-line-item signal recorded last (0: none): a
\* channel that hands out its newest signal first.
LastAdd ==
    IF \E i \in DOMAIN mailbox : mailbox[i].kind = "add"
    THEN CHOOSE i \in DOMAIN mailbox :
            /\ mailbox[i].kind = "add"
            /\ \A j \in (i + 1)..Len(mailbox) : mailbox[j].kind # "add"
    ELSE 0

\* The position in the mailbox of the first add-line-item signal (0: none).
FirstAdd ==
    IF \E i \in DOMAIN mailbox : mailbox[i].kind = "add"
    THEN CHOOSE i \in DOMAIN mailbox :
            /\ mailbox[i].kind = "add"
            /\ \A j \in 1..(i - 1) : mailbox[j].kind # "add"
    ELSE 0

RemoveAt(s, i) == SubSeq(s, 1, i - 1) \o SubSeq(s, i + 1, Len(s))

\* sel.Select(ctx) over addCh and closeCh.  Temporal hands signals to the
\* workflow in the order it recorded them, each channel is FIFO, and a
\* workflow task may carry several signals: the add case can run whenever
\* addCh holds a signal; the close case runs only when no add-line-item
\* signal was recorded before the first close-bill signal.
AddReady == FirstAdd # 0
CloseReady == mailbox # <<>> /\ Head(mailbox).kind = "close"

\* Accrue made to depend on what else is pending: the item goes to the front
\* of the list while further signals wait in the mailbox.
AccruePendingFirst(state, sig) ==
    [state EXCEPT
        !.Items = IF Len(mailbox) > 1
                  THEN <<[ID |-> sig.LineItemID,
                          AmountMinor |-> sig.AmountMinor]>> \o @
                  ELSE Append(@, [ID |-> sig.LineItemID,
                                  AmountMinor |-> sig.AmountMinor]),
        !.TotalMinor = @ + sig.AmountMinor]

\* Accrue as a lost update: the total is overwritten instead of increased.
AccrueOverwriting(state, sig) ==
    [state EXCEPT
        !.Items = Append(@, [ID |-> sig.LineItemID,
                             AmountMinor |-> sig.AmountMinor]),
        !.TotalMinor = sig.AmountMinor]

\* state.Items = append(state.Items, ...); state.TotalMinor += sig.AmountMinor
Accrue(state, sig) ==
    [state EXCEPT
        !.Items = Append(@, [ID |-> sig.LineItemID,
                             AmountMinor |-> sig.AmountMinor]),
        !.TotalMinor = @ + sig.AmountMinor]

\* if shouldClose { break }; return state, nil
ReturnState(state) == [state EXCEPT !.status = "completed", !.pc = "done"]

\* The receive callback of addCh without its currency guard.
AddReceiveAnyCurrency(state, sig) == Accrue(state, sig)

\* The receive callback of addCh (workflow.go:54-69).
AddReceive(state, sig) ==
    IF sig.Currency # state.Currency
    THEN state
    ELSE Accrue(state, sig)

----------------------------------------------------------------------------
(* Requests *)

IdleCall == [op |-> "none", pc |-> "idle", amount |-> 0, currency |-> "",
             b |-> NoBill, lid |-> 0, res |-> "", total |-> 0, items |-> <<>>,
             afterClose |-> FALSE, beforeClose |-> FALSE, sequential |-> FALSE]

\* A client can name the bill once POST /bills has returned its id.  Requests
\* are interchangeable, so they start in the order of their indices.
CanStart(c) ==
    /\ calls[c].op = "none"
    /\ creator.pc = "done" /\ creator.res = "OK"
    /\ IF c = 1 THEN TRUE ELSE calls[c - 1].op # "none"

\* The request that starts: afterClose records whether the bill row was
\* already CLOSED when it arrived, sequential whether every earlier request
\* had returned by then.
StartedCall(c, op, amount, currency) ==
    [calls[c] EXCEPT !.op = op, !.amount = amount, !.currency = currency,
                     !.afterClose = (getBill(TheBillID).status = StatusClosed),
                     !.sequential = \A d \in 1..(c - 1) : calls[d].pc = "done"]

Return(c, res) ==
    calls' = [calls EXCEPT ![c].pc = "done", ![c].res = res, ![c].b = NoBill]

Init ==
    /\ variant \in {"store", "lifecycle"}
    /\ bills = <<>>
    /\ bill_line_items = <<>>
    /\ clock = 0
    /\ wf = NoWorkflow
    /\ mailbox = <<>>
    /\ closeSignalled = FALSE
    /\ closes = 0
    /\ closeAccepted = FALSE
    /\ createdRow = NoCreateBillRow
    /\ applied = <<>>
    /\ directSent = <<>>
    /\ creator = [pc |-> "idle", res |-> ""]
    /\ calls = [c \in Calls |-> IdleCall]

----------------------------------------------------------------------------
(* The "store" build: src/unnamed/part_001 *)

\* POST /bills
CreateBillStore(currency) ==
    /\ variant = "store"
    /\ creator.pc = "idle"
    /\ IF ~Valid(currency)
       THEN /\ creator' = [pc |-> "done", res |-> "InvalidArgument"]
            /\ UNCHANGED <<bills, wf>>
       ELSE /\ bills' = createBill(TheBillID, currency)
            /\ wf' = StartedWorkflow(currency, "select")
            /\ creator' = [pc |-> "done", res |-> "OK"]
    /\ UNCHANGED <<variant, bill_line_items, clock, mailbox, history, calls>>

\* POST /bills/:id/line-items: getBill and the checks on its row.
AddLineItemStore_GetBill(c, amount, currency) ==
    /\ variant = "store"
    /\ CanStart(c)
    /\ LET b == getBill(TheBillID)
           started == StartedCall(c, "add", amount, currency)
           res == AddLineItemStoreCheck(b, currency)
       IN calls' = [calls EXCEPT ![c] =
                       IF res = "OK"
                       THEN [started EXCEPT !.pc = "insert", !.b = b]
                       ELSE [started EXCEPT !.pc = "done", !.res = res]]
    /\ UNCHANGED <<variant, db, wf, mailbox, history, creator>>

\* insertLineItem(ctx, b, req.Description, req.AmountMinor)
AddLineItemStore_Insert(c) ==
    /\ variant = "store"
    /\ calls[c].op = "add" /\ calls[c].pc = "insert"
    /\ LET err == insertLineItemError(calls[c].b, calls[c].amount)
       IN IF err # "OK"
          THEN /\ Return(c, err)
               /\ UNCHANGED bill_line_items
          ELSE /\ bill_line_items' = insertLineItemRow(c, calls[c].b, calls[c].amount)
               /\ calls' = [calls EXCEPT ![c].pc = "signal", ![c].lid = c]
    /\ UNCHANGED <<variant, bills, clock, wf, mailbox, history, creator>>

\* SignalWorkflow(..., signalAddLineItem, sig), then listLineItems and the
\* response: the listing is a read whose result no property looks at, so the
\* request returns in the step of its signal.
AddLineItemStore_Signal(c) ==
    /\ variant = "store"
    /\ calls[c].op = "add" /\ calls[c].pc = "signal"
    /\ IF SignalWorkflowOK
       THEN /\ mailbox' = Append(mailbox, AddLineItemSignal(calls[c].lid,
                                     calls[c].amount, calls[c].currency))
            /\ calls' = [calls EXCEPT ![c].pc = "done", ![c].res = "OK",
                                      ![c].b = NoBill,
                                      ![c].beforeClose = ~closeSignalled]
       ELSE /\ Return(c, "Internal")
            /\ UNCHANGED mailbox
    /\ UNCHANGED <<variant, db, wf, history, creator>>

\* POST /bills/:id/close: getBill and the check on its row.
CloseBillStore_GetBill(c) ==
    /\ variant = "store"
    /\ CanStart(c)
    /\ LET b == getBill(TheBillID)
           started == StartedCall(c, "close", 0, "")
           res == CloseBillStoreCheck(b)
       IN calls' = [calls EXCEPT ![c] =
                       IF res = "OK"
                       THEN [started EXCEPT !.pc = "signal", !.b = b]
                       ELSE [started EXCEPT !.pc = "done", !.res = res]]
    /\ UNCHANGED <<variant, db, wf, mailbox, history, creator>>

\* SignalWorkflow(..., signalCloseBill, CloseBillSignal{})
CloseBillStore_Signal(c) ==
    /\ variant = "store"
    /\ calls[c].op = "close" /\ calls[c].pc = "signal"
    /\ IF SignalWorkflowOK
       THEN /\ mailbox' = Append(mailbox, CloseBillSignal)
            /\ closeSignalled' = TRUE
            /\ calls' = [calls EXCEPT ![c].pc = "get"]
       ELSE /\ Return(c, "Internal")
            /\ UNCHANGED <<mailbox, closeSignalled>>
    /\ UNCHANGED <<variant, db, wf, closes, closeAccepted, createdRow, applied,
                   directSent, creator>>

\* run.Get(ctx, &result): blocks until the workflow has returned.
CloseBillStore_Get(c) ==
    /\ variant = "store"
    /\ calls[c].op = "close" /\ calls[c].pc = "get"
    /\ wf.status = "completed"
    /\ calls' = [calls EXCEPT ![c].pc = "closeBill", ![c].total = wf.TotalMinor]
    /\ UNCHANGED <<variant, db, wf, mailbox, history, creator>>

\* closeBill(ctx, b, result.TotalMinor)
CloseBillStore_CloseBill(c) ==
    /\ variant = "store"
    /\ calls[c].op = "close" /\ calls[c].pc = "closeBill"
    /\ LET err == closeBillError(calls[c].b)
       IN IF err # "OK"
          THEN /\ Return(c, err)
               /\ UNCHANGED <<bills, clock, closes>>
          ELSE /\ clock' = clock + 1
               /\ bills' = closeBillUpdate(calls[c].b, calls[c].total, clock + 1)
               /\ closes' = closes + 1
               /\ calls' = [calls EXCEPT ![c].pc = "list"]
    /\ UNCHANGED <<variant, bill_line_items, wf, mailbox, closeSignalled,
                   closeAccepted, createdRow, applied, directSent, creator>>

\* listLineItems and the response, which carries the row closeBill returned.
CloseBillStore_List(c) ==
    /\ variant = "store"
    /\ calls[c].op = "close" /\ calls[c].pc = "list"
    /\ calls' = [calls EXCEPT ![c].pc = "done", ![c].res = "OK",
                              ![c].items = listLineItems(calls[c].b.id),
                              ![c].b = NoBill]
    /\ UNCHANGED <<variant, db, wf, mailbox, history, creator>>

----------------------------------------------------------------------------
(* BillWorkflow: src/bill/workflow.go *)

\* One iteration of the loop whose Select runs the addCh case.
BillWorkflow_Add ==
    /\ variant = "store"
    /\ wf.status = "running"
    /\ AddReady
    /\ wf' = AddReceive(wf, mailbox[FirstAdd])
    /\ applied' = IF mailbox[FirstAdd].Currency # wf.Currency THEN applied
                  ELSE Append(applied, mailbox[FirstAdd])
    /\ mailbox' = RemoveAt(mailbox, FirstAdd)
    /\ UNCHANGED <<variant, db, closeSignalled, closes, closeAccepted, createdRow,
                   directSent, creator, calls>>

\* One iteration whose Select runs the closeCh case: shouldClose, break,
\* return state.  The signals still in the channels are never received.
BillWorkflow_Close ==
    /\ variant = "store"
    /\ wf.status = "running"
    /\ CloseReady
    /\ wf' = ReturnState(wf)
    /\ mailbox' = <<>>
    /\ closeAccepted' = TRUE
    /\ UNCHANGED <<variant, db, closeSignalled, closes, createdRow, applied,
                   directSent, creator, calls>>

----------------------------------------------------------------------------
(* The activities: src/bill/activities.go *)

\* The INSERT INTO bills without its ON CONFLICT clause, as an upsert of the
\* fresh row.
insertBillOrReset(id, currency) ==
    IF \E i \in DOMAIN bills : bills[i].id = id
    THEN [i \in DOMAIN bills |->
             IF bills[i].id = id
             THEN [id |-> id, status |-> StatusOpen, currency |-> currency,
                   total_minor |-> 0, closed_at |-> 0]
             ELSE bills[i]]
    ELSE createBill(id, currency)

\* INSERT INTO bills ... VALUES ($1, 'OPEN', $3, 0) ON CONFLICT (id) DO NOTHING
insertBillOnConflictDoNothing(id, currency) ==
    IF \E i \in DOMAIN bills : bills[i].id = id
    THEN bills
    ELSE createBill(id, currency)

\* What CreateBillRowActivity returns.
CreateBillRowError(currency) ==
    IF ~Valid(currency) THEN "InvalidArgument" ELSE "OK"

\* AddLineItemError without the amount check.
AddLineItemErrorAnyAmount(amountMinor, currency) ==
    LET b == getBill(TheBillID)
    IN IF b = NoBill THEN "NotFound"
       ELSE IF b.status # StatusOpen THEN "FailedPrecondition"
       ELSE IF b.currency # currency THEN "FailedPrecondition"
       ELSE "OK"

\* What AddLineItemActivity returns before it inserts: the amount check, the
\* SELECT status, currency FROM bills WHERE id = $1 and the checks on the row.
AddLineItemError(amountMinor, currency) ==
    LET b == getBill(TheBillID)
    IN IF amountMinor <= 0 THEN "InvalidArgument"
       ELSE IF b = NoBill THEN "NotFound"
       ELSE IF b.status # StatusOpen THEN "FailedPrecondition"
       ELSE IF b.currency # currency THEN "FailedPrecondition"
       ELSE "OK"

\* The INSERT without its ON CONFLICT clause, were the key not enforced.
insertLineItemAlways(id, billID, amountMinor) ==
    Append(bill_line_items,
           [id |-> id, bill_id |-> billID, amount_minor |-> amountMinor])

\* INSERT INTO bill_line_items ... ON CONFLICT (id) DO NOTHING
insertLineItemOnConflictDoNothing(id, billID, amountMinor) ==
    IF \E i \in DOMAIN bill_line_items : bill_line_items[i].id = id
    THEN bill_line_items
    ELSE Append(bill_line_items,
                [id |-> id, bill_id |-> billID, amount_minor |-> amountMinor])

\* The rows the UPDATE of CloseBillActivity matches: WHERE id = $1 AND status = 'OPEN'
CloseBillMatches(i, billID) ==
    bills[i].id = billID /\ bills[i].status = StatusOpen

\* UPDATE bills SET status = 'CLOSED', total_minor = $3, closed_at = now() WHERE ...
CloseBillActivityUpdate(billID, totalMinor, now) ==
    [i \in DOMAIN bills |->
        IF CloseBillMatches(i, billID)
        THEN [bills[i] EXCEPT !.status = StatusClosed,
                              !.total_minor = totalMinor,
                              !.closed_at = now]
        ELSE bills[i]]

\* What CloseBillActivity returns: an error when RETURNING gave no row.
CloseBillActivityError(billID) ==
    IF \E i \in DOMAIN bills : CloseBillMatches(i, billID)
    THEN "OK" ELSE "FailedPrecondition"

\* AddLineItemPrecheck without the status check.
AddLineItemPrecheckAnyStatus(currency) ==
    LET b == getBill(TheBillID)
    IN IF ~Valid(currency) THEN "InvalidArgument"
       ELSE IF b = NoBill THEN "NotFound"
       ELSE IF b.currency # currency THEN "FailedPrecondition"
       ELSE "OK"

\* getBillStatusAndCurrency and the checks POST /bills/:id/line-items makes.
AddLineItemPrecheck(currency) ==
    LET b == getBill(TheBillID)
    IN IF ~Valid(currency) THEN "InvalidArgument"
       ELSE IF b = NoBill THEN "NotFound"
       ELSE IF b.status # StatusOpen THEN "FailedPrecondition"
       ELSE IF b.currency # currency THEN "FailedPrecondition"
       ELSE "OK"

\* getBillStatusAndCurrency and the check POST /bills/:id/close makes.
CloseBillPrecheck ==
    LET b == getBill(TheBillID)
    IN IF b = NoBill THEN "NotFound"
       ELSE IF b.status # StatusOpen THEN "FailedPrecondition"
       ELSE "OK"

----------------------------------------------------------------------------
(* The "lifecycle" build: the api of src/unnamed/part_000:254-446 *)

\* POST /bills: the row is created by the workflow, not by the handler.
CreateBillLifecycle(currency) ==
    /\ variant = "lifecycle"
    /\ creator.pc = "idle"
    /\ IF ~Valid(currency)
       THEN /\ creator' = [pc |-> "done", res |-> "InvalidArgument"]
            /\ UNCHANGED wf
       ELSE /\ wf' = Scheduled(StartedWorkflow(currency, "create"), "create",
                               NoLineItem)
            /\ creator' = [pc |-> "done", res |-> "OK"]
    /\ UNCHANGED <<variant, db, mailbox, history, calls>>

\* POST /bills/:id/line-items: the checks before the signal.
AddLineItemLifecycle_Check(c, amount, currency) ==
    /\ variant = "lifecycle"
    /\ CanStart(c)
    /\ LET started == StartedCall(c, "add", amount, currency)
           res == AddLineItemPrecheck(currency)
       IN calls' = [calls EXCEPT ![c] =
                       IF res = "OK"
                       THEN [started EXCEPT !.pc = "signal"]
                       ELSE [started EXCEPT !.pc = "done", !.res = res]]
    /\ UNCHANGED <<variant, db, wf, mailbox, history, creator>>

\* lineItemID := uuid.New(); SignalWorkflow; the response.
AddLineItemLifecycle_Signal(c) ==
    /\ variant = "lifecycle"
    /\ calls[c].op = "add" /\ calls[c].pc = "signal"
    /\ IF SignalWorkflowOK
       THEN /\ mailbox' = Append(mailbox, AddLineItemSignal(c, calls[c].amount,
                                                            calls[c].currency))
            /\ calls' = [calls EXCEPT ![c].pc = "done", ![c].res = "OK",
                                      ![c].lid = c,
                                      ![c].beforeClose = ~closeSignalled]
       ELSE /\ Return(c, "FailedPrecondition")
            /\ UNCHANGED mailbox
    /\ UNCHANGED <<variant, db, wf, history, creator>>

\* POST /bills/:id/close: the check before the signal.
CloseBillLifecycle_Check(c) ==
    /\ variant = "lifecycle"
    /\ CanStart(c)
    /\ LET started == StartedCall(c, "close", 0, "")
           res == CloseBillPrecheck
       IN calls' = [calls EXCEPT ![c] =
                       IF res = "OK"
                       THEN [started EXCEPT !.pc = "signal"]
                       ELSE [started EXCEPT !.pc = "done", !.res = res]]
    /\ UNCHANGED <<variant, db, wf, mailbox, history, creator>>

\* SignalWorkflow(..., signalCloseBill, CloseBillSignal{})
CloseBillLifecycle_Signal(c) ==
    /\ variant = "lifecycle"
    /\ calls[c].op = "close" /\ calls[c].pc = "signal"
    /\ IF SignalWorkflowOK
       THEN /\ mailbox' = Append(mailbox, CloseBillSignal)
            /\ closeSignalled' = TRUE
            /\ calls' = [calls EXCEPT ![c].pc = "get"]
       ELSE /\ Return(c, "FailedPrecondition")
            /\ UNCHANGED <<mailbox, closeSignalled>>
    /\ UNCHANGED <<variant, db, wf, closes, closeAccepted, createdRow, applied,
                   directSent, creator>>

\* run.Get(ctx, &result): blocks until the workflow has returned or failed.
CloseBillLifecycle_Get(c) ==
    /\ variant = "lifecycle"
    /\ calls[c].op = "close" /\ calls[c].pc = "get"
    /\ wf.status \in {"completed", "failed"}
    /\ IF wf.status = "failed"
       THEN Return(c, "Internal")
       ELSE calls' = [calls EXCEPT ![c].pc = "join", ![c].total = wf.TotalMinor]
    /\ UNCHANGED <<variant, db, wf, mailbox, history, creator>>

\* getBillWithItemsJoin and the response {AmountMinor: result.TotalMinor, Items}
CloseBillLifecycle_Join(c) ==
    /\ variant = "lifecycle"
    /\ calls[c].op = "close" /\ calls[c].pc = "join"
    /\ IF getBill(TheBillID) = NoBill
       THEN Return(c, "NotFound")
       ELSE calls' = [calls EXCEPT ![c].pc = "done", ![c].res = "OK",
                                   ![c].items = listLineItems(TheBillID)]
    /\ UNCHANGED <<variant, db, wf, mailbox, history, creator>>

----------------------------------------------------------------------------
(* The activities as the worker runs them.  The substrate invokes an        *)
(* activity at least once: after an invocation has returned it may invoke   *)
(* the activity again, and the workflow sees what the last one returned.    *)

Waiting(pc, step) ==
    /\ variant = "lifecycle"
    /\ wf.status = "running"
    /\ wf.pc = pc
    /\ wf.step = step

Returned(w, out) == [w EXCEPT !.step = "returned", !.out = out]

ActivityRetry ==
    /\ variant = "lifecycle"
    /\ wf.status = "running"
    /\ wf.step = "returned"
    /\ wf.attempts < MaxAttempts
    /\ wf' = [wf EXCEPT !.step = "scheduled", !.out = ""]
    /\ UNCHANGED <<variant, db, mailbox, history, creator, calls>>

\* The body of CreateBillRowActivity for the input in: the check, the INSERT
\* and the read-back.
CreateBillRow(currency) ==
    LET err == CreateBillRowError(currency)
    IN /\ bills' = IF err = "OK"
                   THEN insertBillOnConflictDoNothing(TheBillID, currency)
                   ELSE bills
       /\ createdRow' = [n |-> createdRow.n + 1, Currency |-> currency,
                         out |-> err,
                         row |-> IF err = "OK" THEN getBill(TheBillID)' ELSE NoBill]

CreateBillRowActivity ==
    /\ Waiting("create", "scheduled")
    /\ CreateBillRow(wf.Currency)
    /\ wf' = [Returned(wf, createdRow'.out) EXCEPT !.attempts = @ + 1]
    /\ UNCHANGED <<variant, bill_line_items, clock, mailbox, closeSignalled,
                   closes, closeAccepted, applied, directSent, creator, calls>>

\* AddLineItemActivity up to its INSERT
AddLineItemActivity_Check ==
    /\ Waiting("add", "scheduled")
    /\ LET err == AddLineItemError(wf.sig.AmountMinor, wf.sig.Currency)
       IN wf' = IF err = "OK"
                THEN [wf EXCEPT !.step = "checked", !.attempts = @ + 1]
                ELSE [Returned(wf, err) EXCEPT !.attempts = @ + 1]
    /\ UNCHANGED <<variant, db, mailbox, history, creator, calls>>

\* AddLineItemActivity from its INSERT: the insert and the read-back.
AddLineItemActivity_Insert ==
    /\ Waiting("add", "checked")
    /\ bill_line_items' = insertLineItemOnConflictDoNothing(
                              wf.sig.LineItemID, TheBillID, wf.sig.AmountMinor)
    /\ wf' = Returned(wf, "OK")
    /\ UNCHANGED <<variant, bills, clock, mailbox, history, creator, calls>>

CloseBillActivity ==
    /\ Waiting("close", "scheduled")
    /\ LET err == CloseBillActivityError(TheBillID)
       IN /\ clock' = clock + 1
          /\ bills' = CloseBillActivityUpdate(TheBillID, wf.TotalMinor, clock + 1)
          /\ closes' = IF err = "OK" THEN closes + 1 ELSE closes
          /\ wf' = [Returned(wf, err) EXCEPT !.attempts = @ + 1]
    /\ UNCHANGED <<variant, bill_line_items, mailbox, closeSignalled,
                   closeAccepted, createdRow, applied, directSent, creator, calls>>

----------------------------------------------------------------------------
(* BillLifecycleWorkflow: modelled from spec.md 4.1 *)

\* start: the bill row has been created; the loop begins.
BillLifecycleWorkflow_Start ==
    /\ Waiting("create", "returned")
    /\ wf' = IF wf.out = "OK" THEN Resumed(wf)
             ELSE [Resumed(wf) EXCEPT !.status = "failed", !.pc = "done"]
    /\ mailbox' = IF wf.out = "OK" THEN mailbox ELSE <<>>
    /\ createdRow' = NoCreateBillRow
    /\ UNCHANGED <<variant, db, closeSignalled, closes, closeAccepted, applied,
                   directSent, creator, calls>>

\* processLoop receives an AddLineItem: the currency guard, else the insert step.
BillLifecycleWorkflow_Add ==
    /\ Waiting("select", "")
    /\ AddReady
    /\ LET sig == mailbox[FirstAdd]
       IN wf' = IF sig.Currency # wf.Currency THEN wf
                ELSE Scheduled(wf, "add", sig)
    /\ mailbox' = RemoveAt(mailbox, FirstAdd)
    /\ UNCHANGED <<variant, db, history, creator, calls>>

\* The insert step has returned: on success append and add, then continue.
BillLifecycleWorkflow_Added ==
    /\ Waiting("add", "returned")
    /\ wf' = IF wf.out = "OK" THEN Resumed(Accrue(wf, wf.sig)) ELSE Resumed(wf)
    /\ applied' = IF wf.out = "OK" THEN Append(applied, wf.sig) ELSE applied
    /\ UNCHANGED <<variant, db, mailbox, closeSignalled, closes, closeAccepted,
                   createdRow, directSent, creator, calls>>

\* processLoop receives a Close: the close step with the running total.
BillLifecycleWorkflow_Close ==
    /\ Waiting("select", "")
    /\ CloseReady
    /\ wf' = Scheduled(wf, "close", Head(mailbox))
    /\ mailbox' = Tail(mailbox)
    /\ closeAccepted' = TRUE
    /\ UNCHANGED <<variant, db, closeSignalled, closes, createdRow, applied,
                   directSent, creator, calls>>

\* The close step has succeeded: return the final result, end the loop.  The
\* signals still in the channels are never received.
BillLifecycleWorkflow_Closed ==
    /\ Waiting("close", "returned")
    /\ wf.out = "OK"
    /\ wf' = ReturnState(Resumed(wf))
    /\ mailbox' = <<>>
    /\ UNCHANGED <<variant, db, history, creator, calls>>

\* The close step has failed.  spec.md says what happens on success only:
\* the workflow either fails with the error or goes on with its loop.
BillLifecycleWorkflow_CloseFailed(fails) ==
    /\ Waiting("close", "returned")
    /\ wf.out # "OK"
    /\ wf' = IF fails
             THEN [Resumed(wf) EXCEPT !.status = "failed", !.pc = "done"]
             ELSE Resumed(wf)
    /\ mailbox' = IF fails THEN <<>> ELSE mailbox
    /\ UNCHANGED <<variant, db, history, creator, calls>>

----------------------------------------------------------------------------

NextLifecycle ==
    \/ \E cur \in BillCurrencies : CreateBillLifecycle(cur)
    \/ \E c \in Calls, a \in Amounts, cur \in Currencies :
          AddLineItemLifecycle_Check(c, a, cur)
    \/ \E c \in Calls : AddLineItemLifecycle_Signal(c)
    \/ \E c \in Calls : CloseBillLifecycle_Check(c)
    \/ \E c \in Calls : CloseBillLifecycle_Signal(c)
    \/ \E c \in Calls : CloseBillLifecycle_Get(c)
    \/ \E c \in Calls : CloseBillLifecycle_Join(c)
    \/ ActivityRetry
    \/ CreateBillRowActivity
    \/ AddLineItemActivity_Check
    \/ AddLineItemActivity_Insert
    \/ CloseBillActivity
    \/ BillLifecycleWorkflow_Start
    \/ BillLifecycleWorkflow_Add
    \/ BillLifecycleWorkflow_Added
    \/ BillLifecycleWorkflow_Close
    \/ BillLifecycleWorkflow_Closed
    \/ \E fails \in BOOLEAN : BillLifecycleWorkflow_CloseFailed(fails)

NextStore ==
    \/ \E cur \in BillCurrencies : CreateBillStore(cur)
    \/ \E c \in Calls, a \in Amounts, cur \in Currencies :
          AddLineItemStore_GetBill(c, a, cur)
    \/ \E c \in Calls : AddLineItemStore_Insert(c)
    \/ \E c \in Calls : AddLineItemStore_Signal(c)
    \/ \E c \in Calls : CloseBillStore_GetBill(c)
    \/ \E c \in Calls : CloseBillStore_Signal(c)
    \/ \E c \in Calls : CloseBillStore_Get(c)
    \/ \E c \in Calls : CloseBillStore_CloseBill(c)
    \/ \E c \in Calls : CloseBillStore_List(c)
    \/ BillWorkflow_Add
    \/ BillWorkflow_Close

Next == NextStore \/ NextLifecycle

Spec == Init /\ [][Next]_vars

----------------------------------------------------------------------------
(* Properties *)

BillRow == getBill(TheBillID)

IsClosed == BillRow.status = StatusClosed

RECURSIVE SumAmounts(_)
SumAmounts(rows) ==
    IF rows = <<>> THEN 0
    ELSE rows[1].amount_minor + SumAmounts(Tail(rows))

RECURSIVE SumItems(_)
SumItems(items) ==
    IF items = <<>> THEN 0
    ELSE items[1].AmountMinor + SumItems(Tail(items))

\* The ledger rows, and the workflow's items, that carry a line-item id.
RowsWithID(id) == {i \in DOMAIN bill_line_items : bill_line_items[i].id = id}
ItemsWithID(id) == {i \in DOMAIN wf.Items : wf.Items[i].ID = id}

\* POST /bills/:id/line-items of request c has returned a line item.
Acked(c) ==
    calls[c].op = "add" /\ calls[c].pc = "done" /\ calls[c].res = "OK"

\* C1: in every reachable state the total_minor of every bill row equals the
\* sum of amount_minor over the line-item rows of that bill, while the bill
\* is OPEN as well as once it is CLOSED.
C1_TotalIsSumOfRows ==
    \A i \in DOMAIN bills :
        bills[i].total_minor = SumAmounts(listLineItems(bills[i].id))

\* The step in which request c arrives as an add while the bill row is CLOSED
\* returns res to the caller and changes neither table, nor the workflow, nor
\* its signals.
AddAfterCloseReturns(c, res) ==
    (calls[c].op = "none" /\ calls'[c].op = "add" /\ IsClosed) =>
        /\ calls'[c].pc = "done"
        /\ calls'[c].res = res
        /\ UNCHANGED <<bills, bill_line_items, wf, mailbox>>

\* C2 as stated: every add that arrives after the bill row is CLOSED returns
\* FailedPrecondition, persists no line item and leaves the total unchanged.
C2_AddAfterCloseFailedPrecondition ==
    [][\A c \in Calls : AddAfterCloseReturns(c, "FailedPrecondition")]_vars

\* C2, amended: every add that arrives after the bill row is CLOSED is
\* rejected, persists no line item and leaves the total unchanged; it returns
\* FailedPrecondition, except that the lifecycle api returns InvalidArgument
\* when the request's currency is not a supported one.
C2_AddAfterCloseRejected ==
    [][\A c \in Calls :
          AddAfterCloseReturns(c,
              IF variant = "lifecycle" /\ ~Valid(calls'[c].currency)
              THEN "InvalidArgument" ELSE "FailedPrecondition")]_vars

\* create -> close -> add: the add is rejected and the total remains 0.
C2_Witness ==
    /\ IsClosed /\ BillRow.total_minor = 0 /\ bill_line_items = <<>>
    /\ \E c \in Calls :
          /\ calls[c].op = "add" /\ calls[c].afterClose
          /\ calls[c].pc = "done" /\ calls[c].res = "FailedPrecondition"

\* An add with a positive amount that was acknowledged before any close of
\* the bill was submitted.
AckedBeforeClose(c) ==
    Acked(c) /\ calls[c].beforeClose /\ calls[c].amount > 0

\* C3: once the bill is CLOSED, every add with a positive amount that
\* succeeded before a close was submitted, however it interleaved with the
\* other adds, is exactly once in the item list and in the ledger, and the
\* bill's final total is the sum of the amounts in the item list.
C3_NoLostUpdate ==
    IsClosed =>
        /\ \A c \in Calls :
              AckedBeforeClose(c) =>
                  /\ Cardinality(ItemsWithID(c)) = 1
                  /\ Cardinality(RowsWithID(c)) = 1
        /\ BillRow.total_minor = SumItems(wf.Items)

\* Two adds that overlapped (the later request was recorded first), then close.
C3_Witness ==
    /\ IsClosed
    /\ \E c1, c2 \in Calls :
          /\ c1 < c2
          /\ AckedBeforeClose(c1) /\ AckedBeforeClose(c2)
          /\ \E i, j \in DOMAIN wf.Items :
                i < j /\ wf.Items[i].ID = c2 /\ wf.Items[j].ID = c1
    /\ BillRow.total_minor = 2

\* C4: once the bill is CLOSED, every add that returned a line-item id to its
\* caller is among the recorded items: it has a ledger row and it is in the
\* item list whose amounts make up the total.
C4_AckedNeverLost ==
    IsClosed =>
        \A c \in Calls :
            Acked(c) => RowsWithID(c) # {} /\ ItemsWithID(c) # {}

\* C5: however often the insert step is invoked with one line-item id, the
\* ledger holds at most one row with that id, exactly one once the step has
\* returned success, and the amount is in the running total at most once: an
\* id is at most once in the item list, whose amounts sum to the total.
C5_InsertIdempotent ==
    /\ \A c \in Calls :
          /\ Cardinality(RowsWithID(c)) <= 1
          /\ Cardinality(ItemsWithID(c)) <= 1
    /\ (wf.pc = "add" /\ wf.step = "returned" /\ wf.out = "OK") =>
          Cardinality(RowsWithID(wf.sig.LineItemID)) = 1
    /\ wf.TotalMinor = SumItems(wf.Items)

\* The insert step has returned from its second invocation with the same id.
C5_Witness ==
    /\ variant = "lifecycle"
    /\ wf.pc = "add" /\ wf.step = "returned" /\ wf.out = "OK"
    /\ wf.attempts = 2
    /\ Cardinality(RowsWithID(wf.sig.LineItemID)) = 1

\* C6: of all the invocations of the close step for the bill at most one
\* succeeds.
C6_CloseSucceedsOnce == closes <= 1

\* C7: no step adds a line-item row while the bill row is CLOSED.
C7_NoRowForClosedBill ==
    [][bill_line_items' # bill_line_items => ~IsClosed]_vars

\* C8: closed_at is null while the bill is OPEN, and once the bill is CLOSED
\* its row (status, total_minor, closed_at) never changes again.
C8_ClosedIsFinal ==
    [][/\ BillRow.status = StatusOpen => BillRow.closed_at = 0
       /\ IsClosed => bills' = bills]_vars

\* C9: an add whose currency differs from the bill's currency never gets a
\* ledger row and is never in the item list, whose amounts alone make up the
\* running total.
C9_CurrencyIntegrity ==
    /\ \A c \in Calls :
          (calls[c].op = "add" /\ calls[c].currency # wf.Currency) =>
              RowsWithID(c) = {} /\ ItemsWithID(c) = {}
    /\ \A i \in DOMAIN mailbox :
          mailbox[i].kind = "add" => mailbox[i].Currency = wf.Currency
    /\ wf.TotalMinor = SumItems(wf.Items)

\* A GEL add for the open USD bill was rejected for its currency.
C9_Witness ==
    /\ wf.Currency = CurrencyUSD
    /\ \E c \in Calls :
          /\ calls[c].op = "add" /\ calls[c].currency = CurrencyGEL
          /\ ~calls[c].afterClose
          /\ calls[c].pc = "done" /\ calls[c].res = "FailedPrecondition"

\* C10: once the workflow has received a close-bill signal, no step changes
\* its item list, its running total or the ledger's line-item rows.
C10_NothingAfterCloseAccepted ==
    [][closeAccepted =>
          /\ wf'.Items = wf.Items
          /\ wf'.TotalMinor = wf.TotalMinor
          /\ bill_line_items' = bill_line_items]_vars

\* Request c sends its signal in this step.
Sends(c) == calls[c].pc = "signal" /\ calls'[c].pc # "signal"

\* C11: a send to a workflow that is not running (never started, or returned)
\* records no signal and fails towards the caller with NotFound or
\* FailedPrecondition.
C11_SendToTerminatedFails ==
    [][\A c \in Calls :
          (Sends(c) /\ ~SignalWorkflowOK) =>
              /\ mailbox' = mailbox
              /\ calls'[c].pc = "done"
              /\ calls'[c].res \in {"NotFound", "FailedPrecondition"}]_vars

\* C12: an add with an amount <= 0 never returns a line-item id, no
\* add-line-item signal with an amount <= 0 is ever recorded for the workflow,
\* and no ledger row has an amount <= 0.
C12_NonPositiveAmountRejected ==
    /\ \A c \in Calls : (Acked(c) => calls[c].amount > 0)
    /\ \A i \in DOMAIN mailbox :
          mailbox[i].kind = "add" => mailbox[i].AmountMinor > 0
    /\ \A i \in DOMAIN bill_line_items : bill_line_items[i].amount_minor > 0

----------------------------------------------------------------------------
(* Redelivery: a sender that is unsure its signal was received sends it    *)
(* again, so the workflow is handed the same add-line-item signal twice.   *)

\* How often the signal with this line-item id is recorded or applied.
Copies(id) ==
    Cardinality({i \in DOMAIN mailbox :
                    mailbox[i].kind = "add" /\ mailbox[i].LineItemID = id})
    + Cardinality(ItemsWithID(id))

Redeliver ==
    /\ SignalWorkflowOK
    /\ \E i \in DOMAIN mailbox :
          /\ mailbox[i].kind = "add"
          /\ Copies(mailbox[i].LineItemID) < 2
          /\ mailbox' = Append(mailbox, mailbox[i])
    /\ UNCHANGED <<variant, db, wf, history, creator, calls>>

NextRedelivery == Next \/ Redeliver

SpecRedelivery == Init /\ [][NextRedelivery]_vars

\* C13: when an add-line-item signal is delivered to the workflow more than
\* once, its line-item id is in the workflow's item list at most once (so its
\* amount is in the running total once).
C13_RedeliveredAppliedOnce ==
    \A c \in Calls : Cardinality(ItemsWithID(c)) <= 1

\* POST /bills/:id/close of request c has returned its result.
CloseReturned(c) ==
    calls[c].op = "close" /\ calls[c].pc = "done" /\ calls[c].res = "OK"

\* C14: when a close request has returned success, the bill row is CLOSED
\* and the total the request returns is the total_minor of the row.
C14_CloseReturnsPersistedTotal ==
    \A c \in Calls :
        CloseReturned(c) =>
            IsClosed /\ calls[c].total = BillRow.total_minor

\* A close has returned a total that holds a line item.
C14_Witness ==
    \E c \in Calls :
        CloseReturned(c) /\ calls[c].total = 1 /\ BillRow.total_minor = 1

\* The sum of the amounts of requests 1..n.
RECURSIVE SumCallAmounts(_)
SumCallAmounts(n) ==
    IF n = 0 THEN 0 ELSE calls[n].amount + SumCallAmounts(n - 1)

\* Requests 1..c-1 were successful adds issued one after the other, request c
\* a close issued after them that has returned, and there is no other request.
SequentialAddsThenClose(c) ==
    /\ CloseReturned(c) /\ calls[c].sequential
    /\ \A d \in 1..(c - 1) : Acked(d) /\ calls[d].sequential
    /\ \A d \in (c + 1)..MaxCalls : calls[d].op = "none"

\* C15: after n sequential successful adds with amounts a1..an and one close,
\* the close result has the total a1+...+an and n items, and the bill row is
\* CLOSED.
C15_SequentialAddsTotal ==
    \A c \in Calls :
        SequentialAddsThenClose(c) =>
            /\ calls[c].total = SumCallAmounts(c - 1)
            /\ Len(calls[c].items) = c - 1
            /\ IsClosed

----------------------------------------------------------------------------
(* Re-invocation: the substrate may invoke a step again at any later time,  *)
(* also when an earlier invocation has completed and the workflow has gone  *)
(* on; nobody waits for what such an invocation returns.                    *)

MaxReinvocations == 2

ReinvokeCreateBillRow(currency) ==
    /\ variant = "lifecycle"
    /\ wf.status # "none"
    /\ ~Waiting("create", "scheduled")
    /\ createdRow.n < MaxReinvocations
    /\ CreateBillRow(currency)
    /\ UNCHANGED <<variant, bill_line_items, clock, wf, mailbox, closeSignalled,
                   closes, closeAccepted, applied, directSent, creator, calls>>

NextReinvoke == Next \/ \E cur \in Currencies : ReinvokeCreateBillRow(cur)

SpecReinvoke == Init /\ [][NextReinvoke]_vars

\* The bill rows with this id.
BillsWithID(id) == {i \in DOMAIN bills : bills[i].id = id}

\* C17: an invocation of CreateBillRowActivity leaves at most one row for
\* the bill; when the row exists already the invocation changes no row (a
\* CLOSED bill stays CLOSED with its total and closed_at) and returns the row
\* as it is; with an unsupported currency it returns InvalidArgument and
\* changes no row; otherwise it returns the one row the bill then has.
C17_CreateBillRowIdempotent ==
    [][createdRow'.n = createdRow.n + 1 =>
          /\ Cardinality(BillsWithID(TheBillID)') <= 1
          /\ BillRow # NoBill => bills' = bills
          /\ IF Valid(createdRow'.Currency)
             THEN /\ createdRow'.out = "OK"
                  /\ Cardinality(BillsWithID(TheBillID)') = 1
                  /\ createdRow'.row = BillRow'
             ELSE /\ createdRow'.out = "InvalidArgument"
                  /\ bills' = bills]_vars

\* CreateBillRowActivity was invoked again after the bill was closed with a
\* total of 1, and returned the closed row.
C17_Witness ==
    /\ createdRow.n > 0
    /\ createdRow.row.status = StatusClosed
    /\ createdRow.row.total_minor = 1
    /\ BillRow = createdRow.row

\* The errors insertLineItem may return for a bill that is CLOSED or of
\* another currency (closedOrForeign) and for the amount it is handed.
InsertLineItemErrors(closedOrForeign, amountMinor) ==
    IF amountMinor > 0 THEN {"FailedPrecondition"}
    ELSE IF closedOrForeign THEN {"FailedPrecondition", "InvalidArgument"}
    ELSE {"InvalidArgument"}

\* Request c of the store build runs insertLineItem in this step.
StoreInserts(c) ==
    variant = "store" /\ calls[c].pc = "insert" /\ calls'[c].pc # "insert"

\* AddLineItemActivity starts an invocation in this step.
ActivityInserts == Waiting("add", "scheduled") /\ wf'.step # "scheduled"

\* C18: insertLineItem, invoked for a bill that is CLOSED or whose currency
\* differs from the line item's, or with an amount <= 0, fails with
\* FailedPrecondition or InvalidArgument respectively, inserts no row and
\* leaves the bill row unchanged.
C18_InsertLineItemRejects ==
    [][/\ \A c \in Calls :
             (StoreInserts(c) /\ (IsClosed \/ calls[c].amount <= 0)) =>
                 /\ calls'[c].res \in InsertLineItemErrors(IsClosed, calls[c].amount)
                 /\ UNCHANGED <<bills, bill_line_items>>
       /\ (/\ ActivityInserts
           /\ \/ IsClosed
              \/ wf.sig.Currency # BillRow.currency
              \/ wf.sig.AmountMinor <= 0) =>
              /\ wf'.step = "returned"
              /\ wf'.out \in InsertLineItemErrors(
                                 IsClosed \/ wf.sig.Currency # BillRow.currency,
                                 wf.sig.AmountMinor)
              /\ UNCHANGED <<bills, bill_line_items>>]_vars

\* The mutations of the bill's rows that are in flight: a request of the
\* store build that has read the bill and is about to write on that reading
\* (insertLineItem, closeBill), and the step the lifecycle workflow waits for.
MutationsInFlight ==
    Cardinality({c \in Calls : variant = "store"
                                /\ calls[c].pc \in {"insert", "closeBill"}})
    + (IF /\ variant = "lifecycle"
          /\ wf.status = "running"
          /\ wf.pc \in {"add", "close"}
          /\ wf.step \in {"scheduled", "checked"}
       THEN 1 ELSE 0)

\* C19: at most one mutation of the bill's rows is in flight at any time.
C19_OneMutationInFlight == MutationsInFlight <= 1

\* The workflow waits for its next signal: no step is outstanding and no
\* signal is recorded for it.
OrchestratorIdle ==
    wf.status = "running" /\ wf.pc = "select" /\ mailbox = <<>>

\* C20: whenever the workflow is idle, its running total is the sum of the
\* amounts of the bill's line-item rows and its item list holds exactly the
\* ids of those rows.
C20_RunningTotalMatchesLedger ==
    OrchestratorIdle =>
        /\ wf.TotalMinor = SumAmounts(listLineItems(TheBillID))
        /\ {wf.Items[i].ID : i \in DOMAIN wf.Items}
               = {bill_line_items[i].id : i \in DOMAIN bill_line_items}

\* A second run of the workflow's loop, fed the signals of log in their order
\* from the state the workflow starts in.
RECURSIVE Replay(_, _)
Replay(state, log) ==
    IF log = <<>> THEN state
    ELSE Replay(AddReceive(state, Head(log)), Tail(log))

SentInSequence(d, c) ==
    d < c /\ Acked(d) /\ Acked(c) /\ calls[c].sequential

\* C22: when two adds were sent one after the other by a single sender, the
\* item of the first is before the item of the second in the workflow's item
\* list.
C22_SenderOrderKept ==
    \A d, c \in Calls :
        SentInSequence(d, c) =>
            \A i \in ItemsWithID(d), j \in ItemsWithID(c) : i < j

\* Two adds sent in sequence are both in the item list, a third request ran
\* concurrently with the second.
C22_Witness ==
    \E d, c, e \in Calls :
        /\ SentInSequence(d, c)
        /\ ItemsWithID(d) # {} /\ ItemsWithID(c) # {}
        /\ c < e /\ ~calls[e].sequential

\* C23: at most one close request returns success, and every close request
\* that returns without success returns FailedPrecondition (NotFound for a
\* bill that has no row).
C23_OneCloseSucceeds ==
    /\ Cardinality({c \in Calls : CloseReturned(c)}) <= 1
    /\ \A c \in Calls :
          (calls[c].op = "close" /\ calls[c].pc = "done" /\ calls[c].res # "OK") =>
              calls[c].res \in {"FailedPrecondition", "NotFound"}

----------------------------------------------------------------------------
(* Direct senders: the mailbox takes a signal from any client that names    *)
(* the workflow, so a signal need not have passed the checks of the api,    *)
(* and its sender chooses the line-item id.  The adds of this specification *)
(* are all sent that way: what the api's add requests signal is among what  *)
(* a direct sender can send.                                                *)

MaxDirectSends == 2

\* What a direct sender sends: adds with one line-item id, with the bill's
\* currency and two different amounts, or with another currency.
DirectSignals ==
    {AddLineItemSignal(1, 1, CurrencyUSD),
     AddLineItemSignal(1, 2, CurrencyUSD),
     AddLineItemSignal(1, 1, CurrencyGEL)}

DirectSend(sig) ==
    /\ SignalWorkflowOK
    /\ Len(directSent) < MaxDirectSends
    /\ mailbox' = Append(mailbox, sig)
    /\ directSent' = Append(directSent, sig)
    /\ UNCHANGED <<variant, db, wf, closeSignalled, closes, closeAccepted,
                   createdRow, applied, creator, calls>>

NextDirectSend ==
    \/ \E cur \in BillCurrencies : CreateBillStore(cur) \/ CreateBillLifecycle(cur)
    \/ \E c \in Calls :
          \/ CloseBillStore_GetBill(c)
          \/ CloseBillStore_Signal(c)
          \/ CloseBillStore_Get(c)
          \/ CloseBillStore_CloseBill(c)
          \/ CloseBillStore_List(c)
          \/ CloseBillLifecycle_Check(c)
          \/ CloseBillLifecycle_Signal(c)
          \/ CloseBillLifecycle_Get(c)
          \/ CloseBillLifecycle_Join(c)
    \/ BillWorkflow_Add
    \/ BillWorkflow_Close
    \/ ActivityRetry
    \/ CreateBillRowActivity
    \/ AddLineItemActivity_Check
    \/ AddLineItemActivity_Insert
    \/ CloseBillActivity
    \/ BillLifecycleWorkflow_Start
    \/ BillLifecycleWorkflow_Add
    \/ BillLifecycleWorkflow_Added
    \/ BillLifecycleWorkflow_Close
    \/ BillLifecycleWorkflow_Closed
    \/ \E fails \in BOOLEAN : BillLifecycleWorkflow_CloseFailed(fails)
    \/ \E sig \in DirectSignals : DirectSend(sig)

SpecDirectSend == Init /\ [][NextDirectSend]_vars

\* In this step the workflow receives an add-line-item signal whose currency
\* is not the bill's.
ReceivesForeignAdd ==
    /\ wf.status = "running" /\ wf.pc = "select"
    /\ AddReady
    /\ mailbox[FirstAdd].Currency # wf.Currency
    /\ mailbox' = RemoveAt(mailbox, FirstAdd)

\* C24: the step in which the workflow receives an add whose currency differs
\* from the bill's leaves the workflow as it was (item list, running total,
\* no step invoked, no error, still waiting for its next signal), changes no
\* row, and leaves the other signals in the mailbox.
C24_ForeignCurrencyIgnored ==
    [][ReceivesForeignAdd =>
          /\ wf' = wf
          /\ applied' = applied
          /\ UNCHANGED <<bills, bill_line_items>>]_vars

\* A GEL add was sent to the workflow of the USD bill and has been received;
\* the workflow runs, holds the one add it applied, and waits for a signal.
C24_Witness ==
    /\ \E i \in DOMAIN directSent : directSent[i].Currency = CurrencyGEL
    /\ \A i \in DOMAIN mailbox : mailbox[i].Currency # CurrencyGEL
    /\ wf.status = "running" /\ wf.pc = "select"
    /\ wf.Currency = CurrencyUSD
    /\ wf.TotalMinor = 1 /\ Len(wf.Items) = 1

----------------------------------------------------------------------------
(* Progress: a handler that has started goes on to its next statement, the  *)
(* worker runs the workflow task and the activity that are due.  Clients    *)
(* need not issue requests, and the substrate need not invoke a step again. *)

Progress ==
    \/ \E cur \in BillCurrencies : CreateBillStore(cur) \/ CreateBillLifecycle(cur)
    \/ \E c \in Calls :
          \/ AddLineItemStore_Insert(c)
          \/ AddLineItemStore_Signal(c)
          \/ CloseBillStore_Signal(c)
          \/ CloseBillStore_Get(c)
          \/ CloseBillStore_CloseBill(c)
          \/ CloseBillStore_List(c)
          \/ AddLineItemLifecycle_Signal(c)
          \/ CloseBillLifecycle_Signal(c)
          \/ CloseBillLifecycle_Get(c)
          \/ CloseBillLifecycle_Join(c)
    \/ BillWorkflow_Add
    \/ BillWorkflow_Close
    \/ CreateBillRowActivity
    \/ AddLineItemActivity_Check
    \/ AddLineItemActivity_Insert
    \/ CloseBillActivity
    \/ BillLifecycleWorkflow_Start
    \/ BillLifecycleWorkflow_Add
    \/ BillLifecycleWorkflow_Added
    \/ BillLifecycleWorkflow_Close
    \/ BillLifecycleWorkflow_Closed
    \/ \E fails \in BOOLEAN : BillLifecycleWorkflow_CloseFailed(fails)

SpecFair == Init /\ [][Next]_vars /\ WF_vars(Progress)

\* Request c is blocked in run.Get.
BlockedInGet(c) == calls[c].op = "close" /\ calls[c].pc = "get"

\* C25: once a close-bill signal is recorded for the workflow, the workflow
\* eventually returns; what it returns (currency, total, items) is its state
\* when it received the signal; and a close request blocked in run.Get
\* eventually gets the result.
C25_CloseEventuallyReturns ==
    /\ closeSignalled ~> (wf.status = "completed")
    /\ [][closeAccepted =>
             /\ wf'.Currency = wf.Currency
             /\ wf'.TotalMinor = wf.TotalMinor
             /\ wf'.Items = wf.Items]_vars
    /\ \A c \in Calls :
          BlockedInGet(c) ~> (calls[c].pc # "get" /\ calls[c].res # "Internal")

\* C26: once POST /bills has returned the bill's id, the bill row exists (a
\* read of the bill finds it), and no add or close request for that id
\* returns NotFound.
C26_CreatedBillIsVisible ==
    (creator.pc = "done" /\ creator.res = "OK") =>
        /\ BillRow # NoBill
        /\ \A c \in Calls : calls[c].res # "NotFound"

\* C27: in the response of every successful close request the total is the
\* sum of the amounts of the items the response lists, also when adds ran
\* concurrently with the close.
C27_ResponseTotalIsSumOfItems ==
    \A c \in Calls :
        CloseReturned(c) => calls[c].total = SumAmounts(calls[c].items)

\* AddLineItemActivity returns success in this step.
AddLineItemActivityReturnsOK ==
    Waiting("add", "checked") /\ wf'.step = "returned" /\ wf'.out = "OK"

\* C28: when AddLineItemActivity returns success, the table holds a row with
\* the LineItemID of its input (the row it reads back and returns), and that
\* row has the BillID and the AmountMinor of its input, also when a row with
\* that id was there before.
C28_ReturnedRowIsTheInput ==
    [][AddLineItemActivityReturnsOK =>
          /\ \E i \in DOMAIN bill_line_items' :
                bill_line_items'[i].id = wf.sig.LineItemID
          /\ \A i \in DOMAIN bill_line_items' :
                bill_line_items'[i].id = wf.sig.LineItemID =>
                    /\ bill_line_items'[i].bill_id = TheBillID
                    /\ bill_line_items'[i].amount_minor = wf.sig.AmountMinor]_vars

====
